---- MODULE Spec2Model ----
(***************************************************************************)
(* A model of the k-means implementation of                                *)
(* src/UnsupervisedLearning/Clustering/algorithms/hard_assignment.py       *)
(* (class KMeans).                                                         *)
(*                                                                         *)
(* Numbers.  The code computes with floating point values; the model       *)
(* computes with exact rationals.  A centroid is a record [s, n] standing  *)
(* for the vector s/n (the mean of n points whose coordinate-wise sum is   *)
(* s), kept in lowest terms; n = 0 stands for the NaN vector numpy gives   *)
(* as the mean of no points.  A heterogeneity is a rational [num, den] in  *)
(* lowest terms.  Distances are compared through their squares, which      *)
(* order the same way as the Euclidean distances pairwise_distances        *)
(* returns.                                                                *)
(*                                                                         *)
(* Indices.  Data points are numbered 1..N in the model (0..N-1 in the     *)
(* code); cluster labels are 0..k-1 as in the code, and label i names      *)
(* centroids[i + 1].                                                       *)
(***************************************************************************)
EXTENDS Integers, Sequences, FiniteSets

(***************************************************************************)
(* Bounds of the model.                                                    *)
(***************************************************************************)
MaxN == 4
MaxK == 2
MaxIter == 3
MaxRuns == 2

\* The points datasets are drawn from.  <<0, 0>>, <<0, 1>>, <<10, 0>> and
\* <<10, 1>> are the points of the documented scenario; <<1, 0>> gives points
\* that are equidistant from two different centroids, and <<3, 0>> gives runs
\* whose assignment changes in three iterations in a row.
Pool == << <<0, 0>>, <<0, 1>>, <<1, 0>>, <<3, 0>>, <<10, 0>>, <<10, 1>> >>

\* The datasets: 1..MaxN points of the pool, in the pool's order.  No
\* operation of the class depends on the order of the points (every one
\* treats the rows alike and the random indices are arbitrary), so listing
\* each multiset of points once loses no behaviour.
Datasets ==
  UNION { { [n \in 1..len |-> Pool[f[n]]] :
              f \in { g \in [1..len -> 1..Len(Pool)] :
                        \A a \in 1..len, b \in 1..len : a <= b => g[a] <= g[b] } } :
          len \in 1..MaxN }

\* Python's None.  An assignment and a centroid set of the model are never
\* empty, so the empty sequence stands for None where one of them is
\* expected.  A list that may be empty needs a value of its own: the list
\* [0] for a list of seeds (seeds are positive), the list of the one
\* non-number 0/0 for a list of heterogeneities.
None == <<>>
NoSeeds == <<0>>
NoRecord == << [num |-> 0, den |-> 0] >>

(***************************************************************************)
(* Arithmetic helpers.                                                     *)
(***************************************************************************)
Abs(x) == IF x < 0 THEN -x ELSE x

RECURSIVE Gcd(_, _)
Gcd(a, b) == IF b = 0 THEN a ELSE Gcd(b, a % b)

RECURSIVE SumSeq(_)
SumSeq(s) == IF s = <<>> THEN 0 ELSE Head(s) + SumSeq(Tail(s))

RECURSIVE GcdSeq(_)
GcdSeq(s) == IF s = <<>> THEN 0 ELSE Gcd(Abs(Head(s)), GcdSeq(Tail(s)))

\* The rational num/den (den > 0) in lowest terms.
Rat(num, den) ==
  LET g == Gcd(Abs(num), den)
  IN  [num |-> num \div g, den |-> den \div g]

RatAdd(a, b) == Rat(a.num * b.den + b.num * a.den, a.den * b.den)
RatLess(a, b) == a.num * b.den < b.num * a.den
RatLeq(a, b) == a.num * b.den <= b.num * a.den

\* The members of a set of naturals in increasing order.
RECURSIVE SortedSeq(_)
SortedSeq(S) ==
  IF S = {} THEN <<>>
  ELSE LET m == CHOOSE x \in S : \A y \in S : x <= y
       IN  <<m>> \o SortedSeq(S \ {m})

(***************************************************************************)
(* Centroids.                                                              *)
(***************************************************************************)
\* data[idx, :].toarray(): a data point as a dense centroid row.
ToArray(p) == [s |-> p, n |-> 1]

IsNaN(c) == c.n = 0

\* The squared Euclidean distance between point p and centroid c.
SqDist(p, c) ==
  Rat(SumSeq([d \in 1..Len(p) |-> (c.n * p[d] - c.s[d]) * (c.n * p[d] - c.s[d])]),
      c.n * c.n)

\* One entry of pairwise_distances(..., metric='euclidean') is below another.
DistLess(p, c1, c2) == RatLess(SqDist(p, c1), SqDist(p, c2))

(***************************************************************************)
(* assign_clusters.                                                        *)
(***************************************************************************)
\* A scan that keeps the last minimum.
RECURSIVE ArgMinScanLast(_, _, _, _)
ArgMinScanLast(p, centroids, j, best) ==
  IF j > Len(centroids) THEN best
  ELSE ArgMinScanLast(p, centroids, j + 1,
                      IF DistLess(p, centroids[best], centroids[j]) THEN best ELSE j)

\* np.argmin over one row of the distance matrix: a left-to-right scan that
\* keeps the first minimum.
RECURSIVE ArgMinScan(_, _, _, _)
ArgMinScan(p, centroids, j, best) ==
  IF j > Len(centroids) THEN best
  ELSE ArgMinScan(p, centroids, j + 1,
                  IF DistLess(p, centroids[j], centroids[best]) THEN j ELSE best)

ArgMin(p, centroids) == ArgMinScan(p, centroids, 2, 1) - 1

\* pairwise_distances validates its arguments: it raises ValueError for an
\* array with no rows and for one that contains NaN.
AssignRaises(data, centroids) ==
  \/ Len(centroids) = 0
  \/ \E j \in 1..Len(centroids) : IsNaN(centroids[j])

assign_clusters(data, centroids) ==
  [n \in 1..Len(data) |-> ArgMin(data[n], centroids)]

(***************************************************************************)
(* revise_centroids.                                                       *)
(***************************************************************************)
\* data[cluster_assignment == i]: the rows labelled i.
Members(cluster_assignment, i) ==
  { n \in 1..Len(cluster_assignment) : cluster_assignment[n] = i }

\* np.sum in place of np.mean: the members' sum, not divided by their number.
MeanAsSum(data, members) ==
  LET rows == SortedSeq(members)
  IN  [s |-> [d \in 1..Len(data[1]) |->
                SumSeq([r \in 1..Len(rows) |-> data[rows[r]][d]])],
       n |-> IF members = {} THEN 0 ELSE 1]

\* np.mean(member_data_points, axis=0).A1; with no member the result is NaN.
Mean(data, members) ==
  LET rows == SortedSeq(members)
      s == [d \in 1..Len(data[1]) |->
              SumSeq([r \in 1..Len(rows) |-> data[rows[r]][d]])]
      n == Cardinality(members)
      g == Gcd(n, GcdSeq(s))
  IN  IF n = 0 THEN [s |-> s, n |-> 0]
      ELSE [s |-> [d \in 1..Len(s) |-> s[d] \div g], n |-> n \div g]

HasEmptyCluster(k, cluster_assignment) ==
  \E i \in 0..(k - 1) : Members(cluster_assignment, i) = {}

revise_centroids(data, k, cluster_assignment) ==
  [j \in 1..k |-> Mean(data, Members(cluster_assignment, j - 1))]

(***************************************************************************)
(* compute_heterogeneity.                                                  *)
(***************************************************************************)
\* np.mean(squared_distances) in place of np.sum(squared_distances).
ClusterHeterogeneityAsMean(data, centroid, members) ==
  LET rows == SortedSeq(members)
      RECURSIVE Acc(_)
      Acc(r) == IF r > Len(rows) THEN Rat(0, 1)
                ELSE RatAdd(SqDist(data[rows[r]], centroid), Acc(r + 1))
  IN  Rat(Acc(1).num, Acc(1).den * Cardinality(members))

\* np.sum(squared_distances) for one cluster.
ClusterHeterogeneity(data, centroid, members) ==
  LET rows == SortedSeq(members)
      RECURSIVE Acc(_)
      Acc(r) == IF r > Len(rows) THEN Rat(0, 1)
                ELSE RatAdd(SqDist(data[rows[r]], centroid), Acc(r + 1))
  IN  Acc(1)

RECURSIVE HeterogeneityFrom(_, _, _, _, _)
HeterogeneityFrom(data, k, centroids, cluster_assignment, i) ==
  IF i >= k THEN Rat(0, 1)
  ELSE LET members == Members(cluster_assignment, i)
           rest == HeterogeneityFrom(data, k, centroids, cluster_assignment, i + 1)
       IN  IF members # {}
           THEN RatAdd(ClusterHeterogeneity(data, centroids[i + 1], members), rest)
           ELSE rest

compute_heterogeneity(data, k, centroids, cluster_assignment) ==
  HeterogeneityFrom(data, k, centroids, cluster_assignment, 0)

(***************************************************************************)
(* The centroid initializers.                                              *)
(***************************************************************************)
\* The rows data[rand_indices, :].toarray() for a sequence of row indices.
Rows(d, idx) == [j \in 1..Len(idx) |-> ToArray(d[idx[j]])]

\* np.random.randint(0, n, kk): every sequence of kk row indices can be drawn.
IndexSeqs(n, kk) == [1..kk -> 1..n]

\* get_initial_centroids: the index sequences it can draw (k >= 0; numpy
\* raises ValueError for a negative size).
get_initial_centroids(d, kk) == IndexSeqs(Len(d), kk)

\* np.min(pairwise_distances(data, centroids[0:i + 1]) ** 2, axis=1) for one
\* row: the squared distance to the nearest centroid chosen so far.
MinSqDist(p, chosen) ==
  LET RECURSIVE Scan(_, _)
      Scan(j, best) ==
        IF j > Len(chosen) THEN best
        ELSE Scan(j + 1, IF RatLess(SqDist(p, chosen[j]), best)
                         THEN SqDist(p, chosen[j]) ELSE best)
  IN  Scan(2, SqDist(p, chosen[1]))

\* np.random.choice(n, 1, p=squared_distances / sum(squared_distances)) can
\* return exactly the rows of positive probability.
SmartCandidates(d, idx) ==
  { n \in 1..Len(d) : RatLess(Rat(0, 1), MinSqDist(d[n], Rows(d, idx))) }

\* The loop of smart_initialize from the rows idx chosen so far: the index
\* sequences it can end with.  ok = FALSE: every squared distance is 0, the
\* probabilities are 0/0 and np.random.choice raises ValueError.
RECURSIVE SmartDraws(_, _, _)
SmartDraws(d, kk, idx) ==
  IF Len(idx) = kk THEN { [ok |-> TRUE, idx |-> idx] }
  ELSE IF SmartCandidates(d, idx) = {} THEN { [ok |-> FALSE, idx |-> idx] }
  ELSE UNION { SmartDraws(d, kk, Append(idx, n)) : n \in SmartCandidates(d, idx) }

\* smart_initialize for k >= 1: the first row is uniform over all rows.
smart_initialize(d, kk) ==
  UNION { SmartDraws(d, kk, <<n>>) : n \in 1..Len(d) }

(***************************************************************************)
(* State.                                                                  *)
(***************************************************************************)
VARIABLES
  data,                     \* the dataset, fixed for the whole behaviour
  op,                       \* the public method that was called ("" before)
  pc,                       \* "idle", "loop", "trial", "trial_end",
                            \* "returned" or "raised"
  error,                    \* the exception that ended the call, or ""
  k,
  maxiter,
  initial_centroids,        \* run_kmeans' argument
  centroids,
  cluster_assignment,
  prev_cluster_assignment,
  itr,                      \* loop iterations of run_kmeans entered so far
  state,                    \* "Running", "Converged" or "MaxIterReached"
  record_heterogeneity,     \* NoRecord (None), or the list the caller passed
  \* kmeans_multiple_runs
  num_runs,
  seed_list,                \* NoSeeds (None), or the caller's list of seeds
  i,                        \* trials completed
  seed,                     \* the current trial's seed and where it came
                            \* from: [value, source], source "list" or "time"
  heterogeneity,            \* the dict seed -> final heterogeneity
  min_heterogeneity_achieved,
  best_seed,                \* 0 stands for None
  final_centroids,
  final_cluster_assignment,
  rng,                      \* seed -> the indices np.random.randint draws
                            \* right after np.random.seed(seed)
  trials                    \* history: one record per completed trial

runVars == <<k, maxiter, initial_centroids, centroids, cluster_assignment,
             prev_cluster_assignment, itr, state, record_heterogeneity>>

multiVars == <<num_runs, seed_list, i, seed, heterogeneity,
               min_heterogeneity_achieved, best_seed, final_centroids,
               final_cluster_assignment, rng, trials>>

vars == <<data, op, pc, error, runVars, multiVars>>

\* float('inf'): above every heterogeneity.
Infinity == [num |-> 1, den |-> 0]

\* The seeds a caller lists, and the values int(time.time()) takes.
Seeds == {1, 2}

\* The state before a call, for a dataset of DS.
InitOver(DS) ==
  /\ data \in DS
  /\ op = ""
  /\ pc = "idle"
  /\ error = ""
  /\ k = 0
  /\ maxiter = 0
  /\ initial_centroids = <<>>
  /\ centroids = <<>>
  /\ cluster_assignment = None
  /\ prev_cluster_assignment = None
  /\ itr = 0
  /\ state = ""
  /\ record_heterogeneity = NoRecord
  /\ num_runs = 0
  /\ seed_list = NoSeeds
  /\ i = 0
  /\ seed = [value |-> 0, source |-> ""]
  /\ heterogeneity = [s \in {} |-> Infinity]
  /\ min_heterogeneity_achieved = Infinity
  /\ best_seed = 0
  /\ final_centroids = None
  /\ final_cluster_assignment = None
  /\ rng = [s \in {} |-> <<>>]
  /\ trials = <<>>

Init == InitOver(Datasets)

(***************************************************************************)
(* get_initial_centroids and smart_initialize, called on their own.       *)
(***************************************************************************)
\* Lines 17-29.
CallGetInitialCentroids ==
  /\ pc = "idle"
  /\ op' = "get_initial_centroids"
  /\ \E kk \in (-1)..MaxK :
       /\ k' = kk
       /\ \/ \* line 22: np.random.randint rejects a negative size
             /\ kk < 0
             /\ pc' = "raised"
             /\ error' = "ValueError"
             /\ UNCHANGED centroids
          \/ /\ kk >= 0
             /\ \E idx \in get_initial_centroids(data, kk) :
                  centroids' = Rows(data, idx)
             /\ pc' = "returned"
             /\ UNCHANGED error
  /\ UNCHANGED <<data, maxiter, initial_centroids, cluster_assignment,
                 prev_cluster_assignment, itr, state, record_heterogeneity,
                 multiVars>>

\* Lines 35-55.
CallSmartInitialize ==
  /\ pc = "idle"
  /\ op' = "smart_initialize"
  /\ \E kk \in (-1)..MaxK :
       /\ k' = kk
       /\ \/ \* line 37: np.zeros rejects a negative dimension
             /\ kk < 0
             /\ pc' = "raised"
             /\ error' = "ValueError"
             /\ UNCHANGED centroids
          \/ \* line 42: centroids has no row 0
             /\ kk = 0
             /\ pc' = "raised"
             /\ error' = "IndexError"
             /\ UNCHANGED centroids
          \/ /\ kk > 0
             /\ \E o \in smart_initialize(data, kk) :
                  IF o.ok
                  THEN /\ centroids' = Rows(data, o.idx)
                       /\ pc' = "returned"
                       /\ UNCHANGED error
                  ELSE \* line 50: the probabilities are NaN
                       /\ pc' = "raised"
                       /\ error' = "ValueError"
                       /\ UNCHANGED centroids
  /\ UNCHANGED <<data, maxiter, initial_centroids, cluster_assignment,
                 prev_cluster_assignment, itr, state, record_heterogeneity,
                 multiVars>>

(***************************************************************************)
(* run_kmeans.                                                             *)
(***************************************************************************)
\* Lines 123-127: the call up to the head of the loop.  The initial
\* centroids are k rows of the data, as both initializers produce them.  The
\* caller passes an empty list to record into (kmeans_multiple_runs is the
\* caller that passes None).
CallRunKMeans ==
  /\ pc = "idle"
  /\ \E kk \in 0..MaxK, mi \in 0..MaxIter :
       \E idx \in IndexSeqs(Len(data), kk) :
         /\ op' = "run_kmeans"
         /\ k' = kk
         /\ maxiter' = mi
         /\ initial_centroids' = Rows(data, idx)
         /\ centroids' = Rows(data, idx)
         /\ record_heterogeneity' = <<>>
         /\ pc' = IF mi > 0 THEN "loop" ELSE "returned"
         /\ state' = IF mi > 0 THEN "Running" ELSE "MaxIterReached"
  /\ UNCHANGED <<data, error, cluster_assignment, prev_cluster_assignment, itr,
                 multiVars>>

\* Where control goes when run_kmeans returns: to its caller.
AfterLoop == IF op = "kmeans_multiple_runs" THEN "trial_end" ELSE "returned"

\* Lines 140-141: the convergence test.
Converged(prev, new) == prev # None /\ prev = new

\* A record step that forgets to append.
RecordedNothing(rec, score) == rec

\* Lines 151-154: the score is appended to the caller's list, if there is one.
Recorded(rec, score) == IF rec # NoRecord THEN Append(rec, score) ELSE rec

\* Lines 127-156: one iteration of the loop, up to the next loop head.
LoopIter ==
  /\ pc = "loop"
  /\ itr < maxiter
  /\ itr' = itr + 1
  /\ \/ \* line 133: assign_clusters raises
        /\ AssignRaises(data, centroids)
        /\ pc' = "raised"
        /\ error' = "ValueError"
        /\ UNCHANGED <<centroids, cluster_assignment, prev_cluster_assignment,
                       state, record_heterogeneity>>
     \/ \* line 137: the mean of an empty cluster raises (scipy sparse rows)
        /\ ~AssignRaises(data, centroids)
        /\ HasEmptyCluster(k, assign_clusters(data, centroids))
        /\ cluster_assignment' = assign_clusters(data, centroids)
        /\ pc' = "raised"
        /\ error' = "ZeroDivisionError"
        /\ UNCHANGED <<centroids, prev_cluster_assignment, state,
                       record_heterogeneity>>
     \/ \* lines 133-156 run through (an empty cluster's mean is NaN)
        /\ ~AssignRaises(data, centroids)
        /\ LET a == assign_clusters(data, centroids)
               c == revise_centroids(data, k, a)
           IN  /\ cluster_assignment' = a
               /\ centroids' = c
               /\ IF Converged(prev_cluster_assignment, a)
                  THEN /\ pc' = AfterLoop
                       /\ state' = "Converged"
                       /\ UNCHANGED <<prev_cluster_assignment, record_heterogeneity>>
                  ELSE /\ record_heterogeneity' =
                            Recorded(record_heterogeneity,
                                     compute_heterogeneity(data, k, c, a))
                       /\ prev_cluster_assignment' = a
                       /\ pc' = IF itr + 1 < maxiter THEN "loop" ELSE AfterLoop
                       /\ state' = IF itr + 1 < maxiter THEN "Running"
                                   ELSE "MaxIterReached"
        /\ UNCHANGED error
  /\ UNCHANGED <<data, op, k, maxiter, initial_centroids, multiVars>>

Next ==
  \/ CallGetInitialCentroids
  \/ CallSmartInitialize
  \/ CallRunKMeans
  \/ LoopIter

Spec == Init /\ [][Next]_vars

(***************************************************************************)
(* kmeans_multiple_runs.                                                   *)
(***************************************************************************)
\* The datasets of the multiple-run specification: the documented scenario
\* (which has two local optima for k = 2), a dataset with a repeated point
\* and a dataset of three points in a row.
MultiDatasets ==
  { << <<0, 0>>, <<0, 1>>, <<10, 0>>, <<10, 1>> >>,
    << <<0, 0>>, <<0, 0>>, <<10, 0>> >>,
    << <<0, 0>>, <<1, 0>>, <<10, 0>> >> }

InitMulti == InitOver(MultiDatasets)

\* The numbers of clusters a caller of the multiple-run driver asks for.
MultiKs == {1, 2}

\* The seed lists a caller passes: shorter than, as long as and longer than
\* the number of runs it asks for.
SeedLists ==
  UNION { [1..len -> Seeds] : len \in 0..(MaxRuns + 1) }

\* Lines 172-179: the call up to the head of the loop over the trials.
CallMultipleRuns ==
  /\ pc = "idle"
  /\ op' = "kmeans_multiple_runs"
  /\ \E kk \in MultiKs, mi \in 0..MaxIter, nr \in (-1)..MaxRuns :
       /\ k' = kk
       /\ maxiter' = mi
       /\ num_runs' = nr
       /\ pc' = IF nr > 0 THEN "trial" ELSE "returned"
  /\ seed_list' \in SeedLists \cup {NoSeeds}
  /\ UNCHANGED <<data, error, initial_centroids, centroids, cluster_assignment,
                 prev_cluster_assignment, itr, state, record_heterogeneity,
                 i, seed, heterogeneity, min_heterogeneity_achieved, best_seed,
                 final_centroids, final_cluster_assignment, rng, trials>>

\* Lines 17-29 as the trial calls them: np.random.seed(sd) fixes the indices
\* np.random.randint draws, so a seed seen before draws what it drew before.
SeededDraws(sd) ==
  IF sd \in DOMAIN rng THEN {rng[sd]} ELSE get_initial_centroids(data, k)

\* Lines 182-187: the seeds the trial can get.  Without a list the seed is
\* the clock's reading, any of the seed values.
TrialSeeds ==
  IF seed_list # NoSeeds
  THEN { [value |-> seed_list[j], source |-> "list"] : j \in {i + 1} \cap DOMAIN seed_list }
  ELSE { [value |-> v, source |-> "time"] : v \in Seeds }

\* Lines 181-193: a trial from the choice of its seed to the head of
\* run_kmeans' loop.
TrialBegin ==
  /\ pc = "trial"
  /\ \/ \* line 183: seed_list[i] past the end of the list
        /\ seed_list # NoSeeds
        /\ i >= Len(seed_list)
        /\ pc' = "raised"
        /\ error' = "IndexError"
        /\ UNCHANGED <<runVars, seed, rng>>
     \/ \E sv \in TrialSeeds :
          \E idx \in SeededDraws(sv.value) :
            /\ seed' = sv
            /\ rng' = LET sd == sv.value IN [s \in DOMAIN rng \cup {sd} |-> IF s = sd THEN idx ELSE rng[s]]
            /\ initial_centroids' = Rows(data, idx)
            /\ centroids' = Rows(data, idx)
            /\ prev_cluster_assignment' = None
            /\ cluster_assignment' = None
            /\ itr' = 0
            /\ record_heterogeneity' = NoRecord
            /\ pc' = IF maxiter > 0 THEN "loop" ELSE "trial_end"
            /\ state' = IF maxiter > 0 THEN "Running" ELSE "MaxIterReached"
            /\ UNCHANGED <<k, maxiter, error>>
  /\ UNCHANGED <<data, op, num_runs, seed_list, i, heterogeneity,
                 min_heterogeneity_achieved, best_seed, final_centroids,
                 final_cluster_assignment, trials>>

\* The best result replaced on a tie as well (<= for <).
RecordLastWins(h) ==
  /\ heterogeneity' = [s \in DOMAIN heterogeneity \cup {seed.value} |->
                         IF s = seed.value THEN h ELSE heterogeneity[s]]
  /\ trials' = Append(trials, [seed |-> seed.value, source |-> seed.source,
                               initial |-> initial_centroids,
                               centroids |-> centroids,
                               assignment |-> cluster_assignment,
                               heterogeneity |-> h])
  /\ IF RatLeq(h, min_heterogeneity_achieved)
     THEN /\ min_heterogeneity_achieved' = h
          /\ best_seed' = seed.value
          /\ final_centroids' = centroids
          /\ final_cluster_assignment' = cluster_assignment
     ELSE UNCHANGED <<min_heterogeneity_achieved, best_seed, final_centroids,
                      final_cluster_assignment>>
  /\ i' = i + 1
  /\ pc' = IF i + 1 < num_runs THEN "trial" ELSE "returned"
  /\ UNCHANGED error

\* Lines 205-209 and the history: the trial's result h is recorded and kept
\* as the best one when it is below every result before it.
Record(h) ==
  /\ heterogeneity' = [s \in DOMAIN heterogeneity \cup {seed.value} |->
                         IF s = seed.value THEN h ELSE heterogeneity[s]]
  /\ trials' = Append(trials, [seed |-> seed.value, source |-> seed.source,
                               initial |-> initial_centroids,
                               centroids |-> centroids,
                               assignment |-> cluster_assignment,
                               heterogeneity |-> h])
  /\ IF RatLess(h, min_heterogeneity_achieved)
     THEN /\ min_heterogeneity_achieved' = h
          /\ best_seed' = seed.value
          /\ final_centroids' = centroids
          /\ final_cluster_assignment' = cluster_assignment
     ELSE UNCHANGED <<min_heterogeneity_achieved, best_seed, final_centroids,
                      final_cluster_assignment>>
  /\ i' = i + 1
  /\ pc' = IF i + 1 < num_runs THEN "trial" ELSE "returned"
  /\ UNCHANGED error

\* Lines 197-211: the end of a trial, up to the next trial or the return.
\* When run_kmeans made no iteration its assignment is None, every mask
\* cluster_assignment == i is the scalar False, and what data[False, :]
\* selects depends on the matrix type.
TrialEnd ==
  /\ pc = "trial_end"
  /\ \/ /\ cluster_assignment # None
        /\ Record(compute_heterogeneity(data, k, centroids, cluster_assignment))
     \/ \* data[False, :] is rejected
        /\ cluster_assignment = None
        /\ pc' = "raised"
        /\ error' = "IndexError"
        /\ UNCHANGED <<i, heterogeneity, min_heterogeneity_achieved, best_seed,
                       final_centroids, final_cluster_assignment, trials>>
     \/ \* data[False, :] has no rows: every cluster is skipped
        /\ cluster_assignment = None
        /\ Record(Rat(0, 1))
     \/ \* data[False, :] is row 0, for every cluster
        /\ cluster_assignment = None
        /\ Record(compute_heterogeneity([j \in 1..k |-> data[1]], k, centroids,
                                        [j \in 1..k |-> j - 1]))
  /\ UNCHANGED <<data, op, runVars, num_runs, seed_list, seed, rng>>

NextMulti ==
  \/ CallMultipleRuns
  \/ TrialBegin
  \/ LoopIter
  \/ TrialEnd

SpecMulti == InitMulti /\ [][NextMulti]_vars

(***************************************************************************)
(* Properties of run_kmeans and of the steps it is made of (under Spec).   *)
(***************************************************************************)
\* The dataset and the initial centroids of the documented scenario.
ScenarioData == << <<0, 0>>, <<0, 1>>, <<10, 0>>, <<10, 1>> >>
ScenarioCentroids == << ToArray(<<0, 0>>), ToArray(<<10, 0>>) >>

\* run_kmeans has returned to its caller.
RunReturned == op = "run_kmeans" /\ pc = "returned"

\* a maps every point 1..n to exactly one label in 0..kk-1.
IsAssignment(a, n, kk) ==
  /\ DOMAIN a = 1..n
  /\ \A p \in 1..n : a[p] \in 0..(kk - 1)

\* C1: run_kmeans performs at most maxiter iterations before it returns, and
\* the assignment it returns maps every point to exactly one centroid index
\* in 0..k-1, for every iteration cap maxiter.
C1_ReturnsTotalAssignment ==
  RunReturned =>
    /\ itr <= maxiter
    /\ IsAssignment(cluster_assignment, Len(data), k)

\* C1, for a cap of at least one iteration (what the code does guarantee).
RunReturnsTotalAssignmentFromOne ==
  (RunReturned /\ maxiter >= 1) =>
    /\ itr <= maxiter
    /\ IsAssignment(cluster_assignment, Len(data), k)

\* C2: with recording enabled, every value appended to record_heterogeneity
\* is less than or equal to the value appended by the iteration before it.
C2_RecordNonIncreasing ==
  (op = "run_kmeans" /\ record_heterogeneity # NoRecord) =>
    \A j \in 1..(Len(record_heterogeneity) - 1) :
      RatLeq(record_heterogeneity[j + 1], record_heterogeneity[j])

\* A run that recorded three values, each strictly below the one before.
C2_Witness ==
  /\ op = "run_kmeans"
  /\ record_heterogeneity # NoRecord
  /\ Len(record_heterogeneity) >= 3
  /\ RatLess(record_heterogeneity[2], record_heterogeneity[1])
  /\ RatLess(record_heterogeneity[3], record_heterogeneity[2])

\* The scenario after exactly one iteration of the loop.
ScenarioAfterOne ==
  /\ op = "run_kmeans"
  /\ data = ScenarioData
  /\ k = 2
  /\ initial_centroids = ScenarioCentroids
  /\ itr = 1
  /\ pc # "raised"

\* The scenario's assignment [0,0,1,1] and centroids [[0,0.5],[10,0.5]].
ScenarioStep ==
  /\ cluster_assignment = <<0, 0, 1, 1>>
  /\ centroids = << [s |-> <<0, 1>>, n |-> 2], [s |-> <<20, 1>>, n |-> 2] >>

\* C4 as stated: in the scenario one iteration yields assignment [0,0,1,1]
\* and centroids [[0,0.5],[10,0.5]], and their heterogeneity is 0.5.
C4_ScenarioAsStated ==
  ScenarioAfterOne =>
    /\ ScenarioStep
    /\ compute_heterogeneity(data, k, centroids, cluster_assignment) = Rat(1, 2)

\* C4 as amended: in the scenario one iteration yields assignment [0,0,1,1]
\* and centroids [[0,0.5],[10,0.5]], and their heterogeneity is 1.0 (four
\* points, each at squared distance 0.25 from its centroid); with recording,
\* 1.0 is the value the iteration records.
C4_Scenario ==
  ScenarioAfterOne =>
    /\ ScenarioStep
    /\ compute_heterogeneity(data, k, centroids, cluster_assignment) = Rat(1, 1)
    /\ record_heterogeneity # NoRecord => record_heterogeneity = <<Rat(1, 1)>>

\* The scenario after one iteration, with the heterogeneity recorded.
C4_Witness ==
  /\ ScenarioAfterOne
  /\ record_heterogeneity # NoRecord
  /\ Len(record_heterogeneity) = 1

\* C5 as stated: with recording, the first iteration appends nothing and
\* every later iteration that executes appends exactly one value.
C5_AppendsExceptFirst ==
  [][(op = "run_kmeans" /\ pc = "loop" /\ record_heterogeneity # NoRecord) =>
       IF itr = 0
       THEN record_heterogeneity' = record_heterogeneity
       ELSE Len(record_heterogeneity') = Len(record_heterogeneity) + 1]_vars

\* C5 as amended: with recording, every iteration that runs to its end
\* without finding the assignment unchanged, the first one included, has
\* appended exactly one value; the iteration that finds the assignment
\* unchanged, and an iteration that raises, append nothing.  So the list
\* holds one value per iteration entered, less the one that ended the loop by
\* convergence or by an exception.
C5_AppendsUnlessConverged ==
  (op = "run_kmeans" /\ record_heterogeneity # NoRecord) =>
    Len(record_heterogeneity) =
      IF state = "Converged" \/ pc = "raised" THEN itr - 1 ELSE itr

\* A run whose first iteration has recorded a value, and a later run state
\* where the converging iteration has recorded none.
C5_Witness ==
  /\ op = "run_kmeans"
  /\ record_heterogeneity # NoRecord
  /\ state = "Converged"
  /\ itr >= 2
  /\ Len(record_heterogeneity) = itr - 1

\* Label a names a centroid nearest to point p, the first of the nearest.
NearestFirst(p, cs, a) ==
  /\ a \in 0..(Len(cs) - 1)
  /\ \A j \in 0..(Len(cs) - 1) :
       /\ ~DistLess(p, cs[j + 1], cs[a + 1])
       /\ j < a => DistLess(p, cs[a + 1], cs[j + 1])

\* C9: assign_clusters gives every point a centroid at minimum Euclidean
\* distance from it, the one of lowest index among those at that distance.
\* (Every assign_clusters call of the loop is covered: the step that makes
\* the call reads the centroids of its first state and leaves the assignment
\* in its second.  The assignment is a function of the data and the
\* centroids alone, which is what makes a repeated call return it again.)
C9_AssignsNearestFirst ==
  [][(pc = "loop" /\ error' # "ValueError") =>
       /\ DOMAIN cluster_assignment' = 1..Len(data)
       /\ \A n \in 1..Len(data) :
            NearestFirst(data[n], centroids, cluster_assignment'[n])]_vars

\* After the first iteration: a point at the same minimum distance from two
\* different initial centroids has been given the first of them.
C9_Witness ==
  /\ op = "run_kmeans"
  /\ itr = 1
  /\ error # "ValueError"
  /\ \E n \in 1..Len(data), j1 \in 1..k, j2 \in 1..k :
       /\ j1 < j2
       /\ initial_centroids[j1] # initial_centroids[j2]
       /\ SqDist(data[n], initial_centroids[j1]) = SqDist(data[n], initial_centroids[j2])
       /\ \A j \in 1..k : ~DistLess(data[n], initial_centroids[j], initial_centroids[j1])
       /\ cluster_assignment[n] = j1 - 1

\* The centroids are the per-cluster means of the assignment.
MeansOfAssignment ==
  centroids = revise_centroids(data, k, cluster_assignment)

\* The pair is a fixed point of the assignment step.
AssignmentOfCentroids ==
  /\ ~AssignRaises(data, centroids)
  /\ assign_clusters(data, centroids) = cluster_assignment

\* C10: when run_kmeans stops because the assignment did not change, the
\* returned centroids are the means of the returned assignment and
\* assign_clusters on them gives the returned assignment; when it stops at
\* the iteration cap, the returned centroids are the means of the returned
\* assignment.
C10_FixedPointOnReturn ==
  RunReturned =>
    /\ MeansOfAssignment
    /\ state = "Converged" => AssignmentOfCentroids

\* C10, for a cap of at least one iteration (what the code does guarantee).
FixedPointOnReturnFromOne ==
  (RunReturned /\ maxiter >= 1) =>
    /\ MeansOfAssignment
    /\ state = "Converged" => AssignmentOfCentroids

\* A return at the cap whose centroids no longer give the returned assignment.
CapReturnNotFixedPoint ==
  /\ RunReturned
  /\ state = "MaxIterReached"
  /\ maxiter >= 1
  /\ ~AssignmentOfCentroids

\* C8: get_initial_centroids fails whenever k > N or k <= 0; for 1 <= k <= N
\* it returns k centroids, each equal to some data point.
C8_RandomInitRejectsBadK ==
  op = "get_initial_centroids" =>
    /\ (k > Len(data) \/ k <= 0) => pc = "raised"
    /\ (1 <= k /\ k <= Len(data)) =>
         /\ pc = "returned"
         /\ Len(centroids) = k
         /\ \A j \in 1..k : \E n \in 1..Len(data) : centroids[j] = ToArray(data[n])

(***************************************************************************)
(* Properties of kmeans_multiple_runs (under SpecMulti).                   *)
(***************************************************************************)
MultiReturned == op = "kmeans_multiple_runs" /\ pc = "returned"

\* The seeds of the trials completed so far, in order.
EvaluatedSeeds == [j \in 1..Len(trials) |-> trials[j].seed]

\* Trial j has the least heterogeneity of all trials, and is the first such.
FirstMinimal(j) ==
  /\ \A j2 \in 1..Len(trials) :
       RatLeq(trials[j].heterogeneity, trials[j2].heterogeneity)
  /\ \A j2 \in 1..(j - 1) :
       RatLess(trials[j].heterogeneity, trials[j2].heterogeneity)

\* The call returned trial j's centroids and assignment.
ReturnedTrial(j) ==
  /\ final_centroids = trials[j].centroids
  /\ final_cluster_assignment = trials[j].assignment
  /\ best_seed = trials[j].seed

\* C3 as stated: called with a seed list, kmeans_multiple_runs evaluates
\* exactly the seeds of that list, one run per seed and none time-derived,
\* and returns the first run of minimal final heterogeneity.  (Stated for
\* calls that ask for at least one run of at least one iteration, so that
\* what refutes it is a call that does run.)
C3_EvaluatesWholeList ==
  (MultiReturned /\ seed_list # NoSeeds /\ num_runs >= 1 /\ maxiter >= 1) =>
    /\ EvaluatedSeeds = seed_list
    /\ \A j \in 1..Len(trials) : trials[j].source = "list"
    /\ \E j \in 1..Len(trials) : FirstMinimal(j) /\ ReturnedTrial(j)

\* C3 as amended: called with a seed list, kmeans_multiple_runs evaluates
\* the first num_runs seeds of the list in list order, one run per seed and
\* none time-derived (at every moment the seeds evaluated are a prefix of the
\* list, and on return exactly its first max(num_runs, 0) entries); when it
\* returns after at least one run it returns the centroids and assignment of
\* the run of minimal final heterogeneity among those runs, the first of them
\* in list order on a tie; when it returns after no run (num_runs <= 0) it
\* returns (None, None).
C3_EvaluatesListPrefix ==
  (op = "kmeans_multiple_runs" /\ seed_list # NoSeeds) =>
    /\ Len(trials) <= Len(seed_list)
    /\ EvaluatedSeeds = SubSeq(seed_list, 1, Len(trials))
    /\ \A j \in 1..Len(trials) : trials[j].source = "list"
    /\ MultiReturned =>
         /\ Len(trials) = IF num_runs > 0 THEN num_runs ELSE 0
         /\ IF trials = <<>>
            THEN final_centroids = None /\ final_cluster_assignment = None
            ELSE \E j \in 1..Len(trials) : FirstMinimal(j) /\ ReturnedTrial(j)

\* A return after two runs of the loop with the same final heterogeneity and
\* different centroids, on a list longer than num_runs: the first run is the
\* one returned.
C3_Witness ==
  /\ MultiReturned
  /\ seed_list # NoSeeds
  /\ maxiter >= 2
  /\ Len(trials) = 2
  /\ Len(seed_list) > num_runs
  /\ trials[1].assignment # None
  /\ trials[1].heterogeneity = trials[2].heterogeneity
  /\ trials[1].centroids # trials[2].centroids
  /\ ReturnedTrial(1)

\* The centroid sets smart_initialize can return.
SmartInitialCentroids ==
  { Rows(data, o.idx) : o \in { x \in smart_initialize(data, k) : x.ok } }

\* C6: in every trial the initial centroids passed to the convergence loop
\* are a result of the weighted initializer smart_initialize.
C6_TrialsUseSmartInitialize ==
  (op = "kmeans_multiple_runs" /\ pc \in {"loop", "trial_end"}) =>
    initial_centroids \in SmartInitialCentroids

\* C7: kmeans_multiple_runs fails whenever num_runs <= 0; it never returns a
\* result in that case.
C7_RejectsNonPositiveRuns ==
  (op = "kmeans_multiple_runs" /\ num_runs <= 0) => pc # "returned"

====
